---- MODULE Spec2Model ----
(***************************************************************************)
(* Model of the music_of_nature scripts: the note segmenter of             *)
(* audio_to_midi (audio_to_midi_2.py, audio_to_midi_music.py), the         *)
(* diatonic mapper adjust_to_diatonic and the harmonizer process_midi      *)
(* (harmonize_choose_key.py, less_dissonance.py), the mixer mix_wavs       *)
(* (mix.py) and the /convert/ endpoint (audio_to_midi_api.py).             *)
(*                                                                         *)
(* Time is counted in ticks; one STFT hop (hop_length / sr seconds) is     *)
(* HopTicks ticks, so that min_note_gap and min_note_duration need not be  *)
(* multiples of the hop.                                                   *)
(***************************************************************************)
EXTENDS Integers, Sequences, FiniteSets, TLC

\* ------------------------------------------------------------------ bounds
MaxFrames == 4
MaxGap == 3
MaxDur == 3
HopTicks == 2
MaxNotePitch == 26
MaxScaleLen == 2
MaxInstruments == 1
MaxNotes == 2
MaxTime == 1
MaxWavs == 3
MaxLen == 1
MaxPipeFrames == 3

\* Pitches and velocities a frame can be classified to (note_number, velocity).
SegPitches == {61, 69}
SegVelocities == {40, 127}

\* Pitches and velocities of the notes of a MIDI file given to process_midi.
HarmPitches == {30, 61}
HarmVelocities == {40, 100}

\* Samples and sample rates of the (mono) WAV files given to mix_wavs.
WavSamples == {-1, 0, 1}
SampleRates == {22050, 44100}

VARIABLES
    prog,               \* which script runs in this behaviour
    pc,                 \* position inside the running function
    min_note_gap,       \* audio_to_midi parameter
    min_note_duration,  \* audio_to_midi parameter
    n_frames,           \* magnitude.shape[1]
    i,                  \* loop index of the frame loop
    last_note_time,     \* audio_to_midi local
    active_notes,       \* audio_to_midi local: pitch -> (start_time, velocity)
    notes,              \* midi_instrument.notes
    observed,           \* the classification of every frame processed so far
    render,             \* what the rendering step tried and how it went
    files,              \* output files written so far
    outcome,            \* "running", "returned", "returned_true", "returned_false", "raised"
    diatonic_pitches,   \* process_midi local / adjust_to_diatonic argument
    n_instruments,      \* len(midi_data.instruments)
    inst,               \* number of instruments already appended to new_midi
    in_notes,           \* instrument.notes of the instrument being processed
    out_notes,          \* new_instr.notes
    idx,                \* position of the note loop in in_notes
    pitch_num,          \* adjust_to_diatonic argument
    adjusted,           \* adjust_to_diatonic(pitch_num, diatonic_pitches)
    readjusted,         \* adjust_to_diatonic(adjusted, diatonic_pitches)
    guarded,            \* the pitch process_midi writes for pitch_num
    caller,             \* who runs prog: "script", "convert_audio" or "chain"
    instrument,         \* audio_to_midi parameter
    wav_paths,          \* mix_wavs: the number of input paths
    wav_data,           \* mix_wavs: what sf.read returned for the paths read
    combined,           \* mix_wavs local
    mixed,              \* the files mix_wavs wrote
    music_last_note_time,   \* audio_to_midi_music.audio_to_midi: last_note_time
    music_active_notes,     \* audio_to_midi_music.audio_to_midi: active_notes
    music_notes,            \* audio_to_midi_music.audio_to_midi: midi_instrument.notes
    current_key         \* process_midi local: tonic pitch class and mode

segVars == <<min_note_gap, min_note_duration, n_frames, i, last_note_time,
             active_notes, notes, observed>>
harmVars == <<n_instruments, inst, in_notes, out_notes, idx>>
mapVars == <<pitch_num, adjusted, readjusted, guarded>>
ioVars == <<render, files, outcome>>
callVars == <<caller, instrument>>
mixVars == <<wav_paths, wav_data, combined, mixed>>

musicVars == <<music_last_note_time, music_active_notes, music_notes>>

vars == <<prog, pc, segVars, harmVars, mapVars, ioVars, diatonic_pitches,
          callVars, mixVars, musicVars, current_key>>

segParams == <<prog, min_note_gap, min_note_duration, n_frames>>

\* The value of a variable the running script does not have.
Unused == "unused"

\* -------------------------------------------------------------- rendering
NoRender == [sf2 |-> "unchecked", fluid |-> "untried", basic |-> "untried",
             write |-> "untried", used |-> "none"]

\* ------------------------------------------------------------- segmenter
Quiet == [kind |-> "quiet"]
Obs(p, v) == [kind |-> "obs", pitch |-> p, velocity |-> v]
ObsValues == {Quiet} \cup {Obs(p, v) : p \in SegPitches, v \in SegVelocities}

EmptyDict == [p \in {} |-> 0]

CurrentTimeNext(k) == (k + 1) * HopTicks

current_time(k) == k * HopTicks

SpanEndLastFrame == (n_frames - 1) * HopTicks

\* len(magnitude[0]) * hop_length / sr
span_end == n_frames * HopTicks

Note(vel, p, s, e) == [velocity |-> vel, pitch |-> p, start |-> s, end |-> e]

DictPopAll(d, p) == EmptyDict

\* active_notes.pop(p)
DictPop(d, p) == [q \in (DOMAIN d) \ {p} |-> d[q]]

\* active_notes[p] = (t, v)
DictPut(d, p, t, v) ==
    [q \in (DOMAIN d) \cup {p} |->
        IF q = p THEN [start_time |-> t, velocity |-> v] ELSE d[q]]

ClosedNoteLateEnd(d, p, t, mindur) ==
    IF t - d[p].start_time >= mindur
    THEN <<Note(d[p].velocity, p, d[p].start_time, t + HopTicks)>>
    ELSE << >>

ClosedNoteAnyDuration(d, p, t, mindur) ==
    <<[velocity |-> d[p].velocity, pitch |-> p, start |-> d[p].start_time, end |-> t]>>

\* The notes appended when the note open on pitch p is closed at time t.
ClosedNote(d, p, t, mindur) ==
    IF t - d[p].start_time >= mindur
    THEN <<Note(d[p].velocity, p, d[p].start_time, t)>>
    ELSE << >>

OnsetAllowedAlways(t, last, gap) == TRUE

OnsetAllowedNoLast(t, last, gap) == t >= gap

\* if current_time - last_note_time >= min_note_gap
OnsetAllowed(t, last, gap) == t - last >= gap

\* The body of the frame loop on a frame classified as o.
FrameEffect(o) ==
    /\ observed' = Append(observed, o)
    /\ IF o.kind = "quiet"
       THEN UNCHANGED <<last_note_time, active_notes, notes>>
       ELSE IF OnsetAllowed(current_time(i), last_note_time, min_note_gap)
            THEN /\ notes' = IF o.pitch \in DOMAIN active_notes
                             THEN notes \o ClosedNote(active_notes, o.pitch,
                                                      current_time(i), min_note_duration)
                             ELSE notes
                 /\ active_notes' = DictPut(DictPop(active_notes, o.pitch),
                                            o.pitch, current_time(i), o.velocity)
                 /\ last_note_time' = current_time(i)
            ELSE UNCHANGED <<last_note_time, active_notes, notes>>
    /\ i' = i + 1

\* One iteration of the frame loop.
ProcessFrame ==
    /\ pc = "frames"
    /\ i < n_frames
    /\ \E o \in ObsValues : FrameEffect(o)
    /\ UNCHANGED <<current_key, musicVars, callVars, mixVars, segParams, pc, ioVars, harmVars, mapVars, diatonic_pitches>>

RECURSIVE FlushNotesAnyDuration(_, _, _)
FlushNotesAnyDuration(d, endt, mindur) ==
    IF DOMAIN d = {} THEN << >>
    ELSE LET p == CHOOSE q \in DOMAIN d :
                      \A r \in DOMAIN d : d[q].start_time <= d[r].start_time
         IN <<Note(d[p].velocity, p, d[p].start_time, endt)>>
            \o FlushNotesAnyDuration(DictPop(d, p), endt, mindur)

\* active_notes.items() iterates in insertion order; an entry is (re)inserted
\* at each accepted onset, so insertion order is ascending start_time.
RECURSIVE FlushNotes(_, _, _)
FlushNotes(d, endt, mindur) ==
    IF DOMAIN d = {} THEN << >>
    ELSE LET p == CHOOSE q \in DOMAIN d :
                      \A r \in DOMAIN d : d[q].start_time <= d[r].start_time
             dur == endt - d[p].start_time
         IN (IF dur >= mindur
             THEN <<Note(d[p].velocity, p, d[p].start_time, d[p].start_time + dur)>>
             ELSE << >>) \o FlushNotes(DictPop(d, p), endt, mindur)

\* The loop over the remaining active notes, after the last frame.
Flush ==
    /\ pc = "frames"
    /\ i = n_frames
    /\ notes' = notes \o FlushNotes(active_notes, span_end, min_note_duration)
    /\ pc' = "write_midi"
    /\ UNCHANGED <<current_key, musicVars, callVars, mixVars, segParams, i, last_note_time, active_notes, observed,
                   ioVars, harmVars, mapVars, diatonic_pitches>>

\* midi.write(output_midi): an I/O error is not caught inside audio_to_midi.
WriteMidi ==
    /\ pc = "write_midi"
    /\ \E ok \in BOOLEAN :
        IF ok
        THEN /\ files' = files \cup {"midi"}
             /\ pc' = "synth"
             /\ outcome' = outcome
        ELSE /\ files' = files
             /\ pc' = "done"
             /\ outcome' = "raised"
    /\ UNCHANGED <<current_key, musicVars, callVars, mixVars, prog, segVars, render, harmVars, mapVars, diatonic_pitches>>

Tried(ok) == IF ok THEN "ok" ELSE "failed"

\* The try block of audio_to_midi_2.audio_to_midi. sf2: os.path.exists finds
\* the SoundFont; fl, ba, wr: midi.fluidsynth, midi.synthesize and sf.write
\* return rather than raise.
RenderAudio2(sf2, fl, ba, wr) ==
    LET got == IF sf2 THEN fl ELSE ba
    IN [sf2   |-> IF sf2 THEN "found" ELSE "missing",
        fluid |-> IF sf2 THEN Tried(fl) ELSE "untried",
        basic |-> IF sf2 THEN "untried" ELSE Tried(ba),
        write |-> IF got THEN Tried(wr) ELSE "untried",
        used  |-> IF got THEN (IF sf2 THEN "fluidsynth" ELSE "basic") ELSE "none"]

SynthesizeAudio2 ==
    /\ pc = "synth"
    /\ prog = "audio_to_midi_2"
    /\ \E sf2 \in BOOLEAN, fl \in BOOLEAN, ba \in BOOLEAN, wr \in BOOLEAN :
        /\ render' = RenderAudio2(sf2, fl, ba, wr)
        /\ files' = IF render'.write = "ok" THEN files \cup {"audio"} ELSE files
    /\ pc' = "done"
    /\ outcome' = "returned"
    /\ UNCHANGED <<current_key, musicVars, callVars, mixVars, prog, segVars, harmVars, mapVars, diatonic_pitches>>

\* The try block of audio_to_midi_music.audio_to_midi, entered when output_wav
\* is given (wav). midi.fluidsynth raises when the SoundFont file is missing.
RenderAudioMusic(wav, sf2, fl, wr) ==
    IF ~wav THEN NoRender
    ELSE LET got == sf2 /\ fl
         IN [sf2   |-> IF sf2 THEN "found" ELSE "missing",
             fluid |-> Tried(got),
             basic |-> "untried",
             write |-> IF got THEN Tried(wr) ELSE "untried",
             used  |-> IF got THEN "fluidsynth" ELSE "none"]

SynthesizeAudioMusic ==
    /\ pc = "synth"
    /\ prog = "audio_to_midi_music"
    /\ \E wav \in BOOLEAN, sf2 \in BOOLEAN, fl \in BOOLEAN, wr \in BOOLEAN :
        /\ render' = RenderAudioMusic(wav, sf2, fl, wr)
        /\ files' = IF render'.write = "ok" THEN files \cup {"audio"} ELSE files
    /\ pc' = "done"
    /\ outcome' = "returned"
    /\ UNCHANGED <<current_key, musicVars, callVars, mixVars, prog, segVars, harmVars, mapVars, diatonic_pitches>>

HarmIdle ==
    /\ n_instruments = 0
    /\ inst = 0
    /\ in_notes = << >>
    /\ out_notes = << >>
    /\ idx = 0

MapIdle ==
    /\ pitch_num = 0
    /\ adjusted = Unused
    /\ readjusted = Unused
    /\ guarded = Unused

\* No WAV file has been read or mixed.
NoBuffer == << >>

\* No key has been parsed or detected.
NoKey == [tonic |-> 0, mode |-> "none"]

\* The second segmenter of a side-by-side run is not running.
MusicIdle ==
    /\ music_last_note_time = 0
    /\ music_active_notes = EmptyDict
    /\ music_notes = << >>

MixIdle ==
    /\ wav_paths = 0
    /\ wav_data = << >>
    /\ combined = NoBuffer
    /\ mixed = << >>

\* instrument values: one valid MIDI program and one outside 0..127.
InstrumentValues == {5, 128}

\* pretty_midi.instrument_name_to_program('Acoustic Grand Piano')
AcousticGrandPiano == 0

\* The program of midi_instrument.
instrument_program ==
    IF 0 <= instrument /\ instrument <= 127 THEN instrument ELSE AcousticGrandPiano

IoInit ==
    /\ render = NoRender
    /\ files = {}
    /\ outcome = "running"

SegInit ==
    /\ prog \in {"audio_to_midi_2", "audio_to_midi_music"}
    /\ pc = "frames"
    /\ min_note_gap \in 0..MaxGap
    /\ min_note_duration \in 0..MaxDur
    /\ n_frames \in 0..MaxFrames
    /\ i = 0
    /\ last_note_time = -min_note_gap
    /\ active_notes = EmptyDict
    /\ notes = << >>
    /\ observed = << >>
    /\ caller = "script"
    /\ instrument = AcousticGrandPiano
    /\ IoInit
    /\ current_key = NoKey
    /\ HarmIdle
    /\ MapIdle
    /\ MixIdle
    /\ MusicIdle
    /\ diatonic_pitches = << >>

SegNext ==
    \/ ProcessFrame
    \/ Flush
    \/ WriteMidi
    \/ SynthesizeAudio2
    \/ SynthesizeAudioMusic

SpecSeg == SegInit /\ [][SegNext]_vars


\* ------------------------------------------------------- diatonic mapper
Abs(x) == IF x < 0 THEN -x ELSE x

\* The while loop of adjust_to_diatonic; left and right are 0-based indices.
RECURSIVE BinarySearch(_, _, _, _)
BinarySearch(scale, pitch, left, right) ==
    IF left <= right
    THEN LET mid == (left + right) \div 2
         IN IF scale[mid + 1] < pitch
            THEN BinarySearch(scale, pitch, mid + 1, right)
            ELSE BinarySearch(scale, pitch, left, mid - 1)
    ELSE [left |-> left, right |-> right]

CandidatesLeftFirst(scale, lr) ==
    (IF 0 <= lr.left /\ lr.left < Len(scale) THEN <<scale[lr.left + 1]>> ELSE << >>)
    \o (IF 0 <= lr.right /\ lr.right < Len(scale) THEN <<scale[lr.right + 1]>> ELSE << >>)

\* for i in [right, left]: if 0 <= i < len(diatonic_pitches): candidates.append(...)
Candidates(scale, lr) ==
    (IF 0 <= lr.right /\ lr.right < Len(scale) THEN <<scale[lr.right + 1]>> ELSE << >>)
    \o (IF 0 <= lr.left /\ lr.left < Len(scale) THEN <<scale[lr.left + 1]>> ELSE << >>)

DistanceNoAbs(x, pitch) == x - pitch

\* key=lambda x: abs(x - pitch_num)
Distance(x, pitch) == Abs(x - pitch)

\* min(candidates, key=...): the first element with the smallest key.
RECURSIVE MinByDistance(_, _)
MinByDistance(cands, pitch) ==
    IF Len(cands) = 1 THEN cands[1]
    ELSE LET rest == MinByDistance(Tail(cands), pitch)
         IN IF Distance(rest, pitch) < Distance(cands[1], pitch)
            THEN rest ELSE cands[1]

AdjustKeepsPitch(pitch, scale) == pitch

adjust_to_diatonic(pitch, scale) ==
    LET cands == Candidates(scale, BinarySearch(scale, pitch, 0, Len(scale) - 1))
    IN IF cands = << >> THEN pitch ELSE MinByDistance(cands, pitch)

OctaveGuardOff(pitch, adjusted_pitch) == adjusted_pitch

\* The octave guard of process_midi.
OctaveGuard(pitch, adjusted_pitch) ==
    LET original_octave == pitch \div 12
        adjusted_octave == adjusted_pitch \div 12
    IN IF Abs(adjusted_octave - original_octave) > 1
       THEN (original_octave * 12) + (adjusted_pitch % 12)
       ELSE adjusted_pitch

\* The pitch process_midi writes for a note of pitch p.
HarmonizePitch(p, scale) == OctaveGuard(p, adjust_to_diatonic(p, scale))

\* Ascending sequences (duplicates allowed) over S, of length at most n.
SortedSeqs(S, n) ==
    {s \in UNION {[1..k -> S] : k \in 0..n} :
        \A a \in 1..Len(s), b \in 1..Len(s) : a < b => s[a] <= s[b]}

Adjust ==
    /\ pc = "map"
    /\ adjusted' = adjust_to_diatonic(pitch_num, diatonic_pitches)
    /\ pc' = "adjusted"
    /\ UNCHANGED <<current_key, musicVars, callVars, mixVars, prog, segVars, harmVars, ioVars, diatonic_pitches,
                   pitch_num, readjusted, guarded>>

Guard ==
    /\ pc = "adjusted"
    /\ guarded' = OctaveGuard(pitch_num, adjusted)
    /\ pc' = "guarded"
    /\ UNCHANGED <<current_key, musicVars, callVars, mixVars, prog, segVars, harmVars, ioVars, diatonic_pitches,
                   pitch_num, adjusted, readjusted>>

\* A second application, to the first one's result.
Readjust ==
    /\ pc = "guarded"
    /\ readjusted' = adjust_to_diatonic(adjusted, diatonic_pitches)
    /\ pc' = "readjusted"
    /\ UNCHANGED <<current_key, musicVars, callVars, mixVars, prog, segVars, harmVars, ioVars, diatonic_pitches,
                   pitch_num, adjusted, guarded>>

SegIdle ==
    /\ min_note_gap = 0
    /\ min_note_duration = 0
    /\ n_frames = 0
    /\ i = 0
    /\ last_note_time = 0
    /\ active_notes = EmptyDict
    /\ notes = << >>
    /\ observed = << >>

MapInit ==
    /\ prog = "adjust_to_diatonic"
    /\ pc = "map"
    /\ pitch_num \in 0..MaxNotePitch
    /\ diatonic_pitches \in SortedSeqs(0..MaxNotePitch, MaxScaleLen)
    /\ adjusted = Unused
    /\ readjusted = Unused
    /\ guarded = Unused
    /\ SegIdle
    /\ HarmIdle
    /\ IoInit
    /\ current_key = NoKey
    /\ MixIdle
    /\ MusicIdle
    /\ caller = "script"
    /\ instrument = 0

MapNext ==
    \/ Adjust
    \/ Guard
    \/ Readjust

SpecMap == MapInit /\ [][MapNext]_vars

\* ------------------------------------------------------------ harmonizer
HarmKeys == {[tonic |-> 0, mode |-> "major"], [tonic |-> 9, mode |-> "minor"]}

\* sc.pitches of music21's scale of the key: one octave up from the tonic,
\* whose default octave is 4 (MIDI 60 + pitch class).
ScalePitches(k) ==
    {60 + k.tonic + d : d \in (IF k.mode = "major"
                                THEN {0, 2, 4, 5, 7, 9, 11, 12}
                                ELSE {0, 2, 3, 5, 7, 8, 10, 12})}

\* sorted(S) for a set S of integers.
RECURSIVE SortedList(_)
SortedList(S) ==
    IF S = {} THEN << >>
    ELSE LET m == CHOOSE x \in S : \A y \in S : x <= y
         IN <<m>> \o SortedList(S \ {m})

get_diatonic_pitches(k) ==
    SortedList({p + (octave * 12) : p \in ScalePitches(k), octave \in 0..9}
               \cap (0..127))

HarmNotes ==
    {Note(v, p, s, e) : v \in HarmVelocities, p \in HarmPitches,
                        s \in 0..MaxTime, e \in 0..MaxTime} 

\* pretty_midi.PrettyMIDI(path), then the key (parse_user_key or detect_key)
\* and get_diatonic_pitches; any exception makes process_midi return False.
Load ==
    /\ pc = "load"
    /\ \E ok \in BOOLEAN :
        IF ok
        THEN /\ \E k \in HarmKeys :
                    /\ current_key' = k
                    /\ diatonic_pitches' = get_diatonic_pitches(k)
             /\ pc' = "instrument"
             /\ outcome' = outcome
        ELSE /\ diatonic_pitches' = diatonic_pitches
             /\ current_key' = current_key
             /\ pc' = "done"
             /\ outcome' = "returned_false"
    /\ UNCHANGED <<musicVars, callVars, mixVars, prog, segVars, harmVars, mapVars, render, files>>

\* for instrument in midi_data.instruments: new_instr = Instrument(...)
BeginInstrument ==
    /\ pc = "instrument"
    /\ inst < n_instruments
    /\ \E ns \in {s \in UNION {[1..k -> HarmNotes] : k \in 0..MaxNotes} :
                     \A k \in 1..Len(s) : s[k].start <= s[k].end} :
        in_notes' = ns
    /\ out_notes' = << >>
    /\ idx' = 1
    /\ pc' = "notes"
    /\ UNCHANGED <<current_key, musicVars, callVars, mixVars, prog, segVars, mapVars, ioVars, diatonic_pitches,
                   n_instruments, inst>>

TrimNone(ns, start) == ns

TrimSetsStart(ns, start) ==
    [k \in 1..Len(ns) |->
        IF ns[k].end > start THEN [ns[k] EXCEPT !.start = start] ELSE ns[k]]

\* Cut all notes that haven't ended before this note starts.
TrimOverlaps(ns, start) ==
    [k \in 1..Len(ns) |->
        IF ns[k].end > start THEN [ns[k] EXCEPT !.end = start] ELSE ns[k]]

\* The body of the note loop of harmonize_choose_key.process_midi.
ProcessNoteChooseKey ==
    /\ pc = "notes"
    /\ prog = "harmonize_choose_key"
    /\ idx <= Len(in_notes)
    /\ LET n == in_notes[idx]
           adjusted_pitch == HarmonizePitch(n.pitch, diatonic_pitches)
       IN out_notes' = Append(TrimOverlaps(out_notes, n.start),
                              Note(n.velocity, adjusted_pitch, n.start, n.end))
    /\ idx' = idx + 1
    /\ UNCHANGED <<current_key, musicVars, callVars, mixVars, prog, pc, segVars, mapVars, ioVars, diatonic_pitches,
                   n_instruments, inst, in_notes>>

\* The body of the note loop of less_dissonance.process_midi.
ProcessNoteLessDissonance ==
    /\ pc = "notes"
    /\ prog = "less_dissonance"
    /\ idx <= Len(in_notes)
    /\ LET n == in_notes[idx]
           adjusted_pitch == HarmonizePitch(n.pitch, diatonic_pitches)
       IN out_notes' = Append(out_notes,
                              Note(n.velocity, adjusted_pitch, n.start, n.end))
    /\ idx' = idx + 1
    /\ UNCHANGED <<current_key, musicVars, callVars, mixVars, prog, pc, segVars, mapVars, ioVars, diatonic_pitches,
                   n_instruments, inst, in_notes>>

\* new_midi.instruments.append(new_instr): the pass over this instrument is
\* over, and its loop variables go out of scope.
EndInstrument ==
    /\ pc = "notes"
    /\ idx > Len(in_notes)
    /\ inst' = inst + 1
    /\ in_notes' = << >>
    /\ out_notes' = << >>
    /\ idx' = 0
    /\ pc' = "instrument"
    /\ UNCHANGED <<current_key, musicVars, callVars, mixVars, prog, segVars, mapVars, ioVars, diatonic_pitches, n_instruments>>

\* The synthesis of process_midi: fluidsynth, on any exception synthesize.
\* fluidsynth raises when the SoundFont file is missing (sf2 false).
RenderHarm(sf2, fl, ba, wr) ==
    LET gotFluid == sf2 /\ fl
        got == gotFluid \/ ba
    IN [sf2   |-> IF sf2 THEN "found" ELSE "missing",
        fluid |-> Tried(gotFluid),
        basic |-> IF gotFluid THEN "untried" ELSE Tried(ba),
        write |-> IF got THEN Tried(wr) ELSE "untried",
        used  |-> IF gotFluid THEN "fluidsynth" ELSE IF ba THEN "basic" ELSE "none"]

HarmSynthesize ==
    /\ pc = "instrument"
    /\ inst = n_instruments
    /\ \E sf2 \in BOOLEAN, fl \in BOOLEAN, ba \in BOOLEAN, wr \in BOOLEAN :
        /\ render' = RenderHarm(sf2, fl, ba, wr)
        /\ files' = IF render'.write = "ok" THEN files \cup {"harmonized"} ELSE files
        /\ outcome' = IF render'.write = "ok" THEN "returned_true" ELSE "returned_false"
    /\ pc' = "done"
    /\ UNCHANGED <<current_key, musicVars, callVars, mixVars, prog, segVars, harmVars, mapVars, diatonic_pitches>>

HarmInit ==
    /\ prog \in {"harmonize_choose_key", "less_dissonance"}
    /\ pc = "load"
    /\ n_instruments \in 0..MaxInstruments
    /\ inst = 0
    /\ in_notes = << >>
    /\ out_notes = << >>
    /\ idx = 0
    /\ diatonic_pitches = << >>
    /\ SegIdle
    /\ MapIdle
    /\ IoInit
    /\ current_key = NoKey
    /\ MixIdle
    /\ MusicIdle
    /\ caller = "script"
    /\ instrument = 0

HarmNext ==
    \/ Load
    \/ BeginInstrument
    \/ ProcessNoteChooseKey
    \/ ProcessNoteLessDissonance
    \/ EndInstrument
    \/ HarmSynthesize

SpecHarm == HarmInit /\ [][HarmNext]_vars

\* ------------------------------------------------------------------ mixer
WavBuffers ==
    {[data |-> d, sr |-> r] :
        d \in UNION {[1..n -> WavSamples] : n \in 0..MaxLen}, r \in SampleRates}

\* max(S) for a non-empty set S of integers.
MaxOf(S) == CHOOSE x \in S : \A y \in S : y <= x

RatesDifferNever(w) == FALSE

\* len(set(sample_rates)) > 1
RatesDiffer(w) == \E a \in 1..Len(w), b \in 1..Len(w) : w[a].sr # w[b].sr

\* max(len(data) for data in audio_data)
max_len(w) == MaxOf({Len(w[k].data) : k \in 1..Len(w)})

\* np.pad(data, (0, n - len(data)))
Pad(d, n) == [k \in 1..n |-> IF k <= Len(d) THEN d[k] ELSE 0]

RECURSIVE SumAt(_, _, _)
SumAt(w, n, k) ==
    IF Len(w) = 0 THEN 0
    ELSE Pad(w[1].data, n)[k] + SumAt(Tail(w), n, k)

\* np.sum(padded_data, axis=0)
PaddedSum(w) == [k \in 1..max_len(w) |-> SumAt(w, max_len(w), k)]

\* np.max(np.abs(combined)), of a non-empty buffer.
Peak(c) == MaxOf({Abs(c[k]) : k \in 1..Len(c)})

\* A float sample, the quotient num / den; numpy's 0.0 / 0.0 is NaN.
Quotient(n, d) == [num |-> n, den |-> d]
NaN == Quotient(0, 0)

\* combined /= np.max(np.abs(combined)): 0.0 / 0.0 is NaN in numpy.
Normalize(c) == [k \in 1..Len(c) |-> Quotient(c[k], Peak(c))]

\* if not wav_paths: return
MixNoInput ==
    /\ prog = "mix"
    /\ pc = "read"
    /\ wav_paths = 0
    /\ pc' = "done"
    /\ outcome' = "returned"
    /\ UNCHANGED <<current_key, musicVars, callVars, mixVars, prog, segVars, harmVars, mapVars, render, files,
                   diatonic_pitches>>

\* One iteration of the read loop; sf.read may raise.
ReadWav ==
    /\ prog = "mix"
    /\ pc = "read"
    /\ wav_paths > 0
    /\ Len(wav_data) < wav_paths
    /\ \/ /\ \E b \in WavBuffers : wav_data' = Append(wav_data, b)
          /\ UNCHANGED <<pc, outcome>>
       \/ /\ pc' = "done"
          /\ outcome' = "raised"
          /\ UNCHANGED wav_data
    /\ UNCHANGED <<current_key, musicVars, callVars, wav_paths, combined, mixed, prog, segVars, harmVars,
                   mapVars, render, files, diatonic_pitches>>

\* Make sure all sample rates are the same.
CheckRates ==
    /\ prog = "mix"
    /\ pc = "read"
    /\ wav_paths > 0
    /\ Len(wav_data) = wav_paths
    /\ IF RatesDiffer(wav_data)
       THEN pc' = "done" /\ outcome' = "raised"
       ELSE pc' = "combine" /\ outcome' = outcome
    /\ UNCHANGED <<current_key, musicVars, callVars, mixVars, prog, segVars, harmVars, mapVars, render, files,
                   diatonic_pitches>>

\* Pad shorter arrays with zeros and sum all tracks together.
Combine ==
    /\ prog = "mix"
    /\ pc = "combine"
    /\ combined' = PaddedSum(wav_data)
    /\ pc' = "normalize"
    /\ UNCHANGED <<current_key, musicVars, callVars, wav_paths, wav_data, mixed, prog, segVars, harmVars,
                   mapVars, ioVars, diatonic_pitches>>

\* The in-place normalisation; np.max raises ValueError on an empty array.
NormalizeCombined ==
    /\ prog = "mix"
    /\ pc = "normalize"
    /\ IF Len(combined) = 0
       THEN /\ pc' = "done"
            /\ outcome' = "raised"
            /\ UNCHANGED combined
       ELSE /\ combined' = Normalize(combined)
            /\ pc' = "write"
            /\ UNCHANGED outcome
    /\ UNCHANGED <<current_key, musicVars, callVars, wav_paths, wav_data, mixed, prog, segVars, harmVars,
                   mapVars, render, files, diatonic_pitches>>

\* sf.write(output_path, combined, sample_rates[0]); render keeps how it went.
WriteWav ==
    /\ prog = "mix"
    /\ pc = "write"
    /\ \E ok \in BOOLEAN :
        /\ render' = [NoRender EXCEPT !.write = Tried(ok)]
        /\ mixed' = IF ok
                    THEN Append(mixed, [data |-> combined, sr |-> wav_data[1].sr])
                    ELSE mixed
        /\ outcome' = IF ok THEN "returned" ELSE "raised"
    /\ pc' = "done"
    /\ UNCHANGED <<current_key, musicVars, callVars, wav_paths, wav_data, combined, prog, segVars, harmVars,
                   mapVars, files, diatonic_pitches>>

MixInit ==
    /\ prog = "mix"
    /\ pc = "read"
    /\ wav_paths \in 0..MaxWavs
    /\ wav_data = << >>
    /\ combined = NoBuffer
    /\ mixed = << >>
    /\ MusicIdle
    /\ caller = "script"
    /\ instrument = AcousticGrandPiano
    /\ SegIdle
    /\ HarmIdle
    /\ MapIdle
    /\ IoInit
    /\ current_key = NoKey
    /\ diatonic_pitches = << >>

MixNext ==
    \/ MixNoInput
    \/ ReadWav
    \/ CheckRates
    \/ Combine
    \/ NormalizeCombined
    \/ WriteWav

SpecMix == MixInit /\ [][MixNext]_vars

\* --------------------------------------------------------------- pipeline
\* The orders in which the notes of a sequence can be listed.
Orders(ns) ==
    {[k \in 1..Len(ns) |-> ns[f[k]]] :
        f \in {g \in [1..Len(ns) -> 1..Len(ns)] :
                  \A a \in 1..Len(ns), b \in 1..Len(ns) : g[a] = g[b] => a = b}}

\* process_midi is called on the MIDI file audio_to_midi has written: by
\* convert_audio (less_dissonance.process_midi) or by the script of
\* harmonize_choose_key, which reads the file audio_to_midi_music leaves.
\* The file holds notes; an instrument without notes is not read back.
CallProcessMidi ==
    /\ caller \in {"convert_audio", "chain"}
    /\ prog \in {"audio_to_midi_2", "audio_to_midi_music"}
    /\ pc = "done"
    /\ outcome = "returned"
    /\ prog' = IF caller = "convert_audio" THEN "less_dissonance"
                                           ELSE "harmonize_choose_key"
    /\ pc' = "load"
    /\ outcome' = "running"
    /\ i' = 0
    /\ last_note_time' = 0
    /\ active_notes' = EmptyDict
    /\ observed' = << >>
    /\ n_instruments' = IF notes = << >> THEN 0 ELSE 1
    /\ UNCHANGED <<current_key, musicVars, callVars, mixVars, min_note_gap, min_note_duration, n_frames, notes,
                   inst, in_notes, out_notes, idx, mapVars, render, files,
                   diatonic_pitches>>

\* for instrument in midi_data.instruments, on the file audio_to_midi wrote:
\* instrument.notes are the written notes, in the order pretty_midi loads them.
BeginInstrumentFromFile ==
    /\ caller \in {"convert_audio", "chain"}
    /\ pc = "instrument"
    /\ inst < n_instruments
    /\ in_notes' \in Orders(notes)
    /\ out_notes' = << >>
    /\ idx' = 1
    /\ pc' = "notes"
    /\ UNCHANGED <<current_key, musicVars, callVars, mixVars, prog, segVars, mapVars, ioVars, diatonic_pitches,
                   n_instruments, inst>>

\* The response of convert_audio: the names of the three files, or, when
\* audio_to_midi raised or process_midi returned False, the error.
ApiRespond ==
    /\ caller = "convert_audio"
    /\ pc = "done"
    /\ outcome = "raised" \/ prog = "less_dissonance"
    /\ pc' = "responded"
    /\ outcome' = IF outcome = "returned_true" THEN "success" ELSE "error"
    /\ UNCHANGED <<current_key, musicVars, callVars, mixVars, prog, segVars, harmVars, mapVars, render, files,
                   diatonic_pitches>>

PipeInit ==
    /\ pc = "frames"
    /\ min_note_gap \in 0..MaxGap
    /\ min_note_duration \in 0..MaxDur
    /\ n_frames \in 0..MaxPipeFrames
    /\ i = 0
    /\ last_note_time = -min_note_gap
    /\ active_notes = EmptyDict
    /\ notes = << >>
    /\ observed = << >>
    /\ IoInit
    /\ current_key = NoKey
    /\ HarmIdle
    /\ MapIdle
    /\ MixIdle
    /\ MusicIdle
    /\ diatonic_pitches = << >>

\* A request to /convert/ with its form fields.
ApiInit ==
    /\ prog = "audio_to_midi_2"
    /\ caller = "convert_audio"
    /\ instrument \in InstrumentValues
    /\ PipeInit

ApiNext ==
    \/ ProcessFrame
    \/ Flush
    \/ WriteMidi
    \/ SynthesizeAudio2
    \/ CallProcessMidi
    \/ Load
    \/ BeginInstrumentFromFile
    \/ ProcessNoteLessDissonance
    \/ EndInstrument
    \/ HarmSynthesize
    \/ ApiRespond

SpecApi == ApiInit /\ [][ApiNext]_vars

\* audio_to_midi_music run as a script, then harmonize_choose_key run as a
\* script on the MIDI file it wrote.
ChainInit ==
    /\ prog = "audio_to_midi_music"
    /\ caller = "chain"
    /\ instrument = AcousticGrandPiano
    /\ PipeInit

ChainNext ==
    \/ ProcessFrame
    \/ Flush
    \/ WriteMidi
    \/ SynthesizeAudioMusic
    \/ CallProcessMidi
    \/ Load
    \/ BeginInstrumentFromFile
    \/ ProcessNoteChooseKey
    \/ EndInstrument
    \/ HarmSynthesize

SpecChain == ChainInit /\ [][ChainNext]_vars

\* --------------------------------------------------------- segmenter pair
\* audio_to_midi of audio_to_midi_2.py and audio_to_midi of
\* audio_to_midi_music.py run side by side on the same frames and parameters.

OnsetAllowedMusicStrict(t, last, gap) == t - last > gap

\* audio_to_midi_music: if current_time - last_note_time >= min_note_gap
OnsetAllowedMusic(t, last, gap) == t - last >= gap

\* audio_to_midi_music: the notes appended when the note open on pitch p is
\* closed at time t.
ClosedNoteMusic(d, p, t, mindur) ==
    IF t - d[p].start_time >= mindur
    THEN <<Note(d[p].velocity, p, d[p].start_time, t)>>
    ELSE << >>

\* audio_to_midi_music: the body of the frame loop on a frame classified as o.
MusicFrameEffect(o) ==
    IF o.kind = "quiet"
    THEN UNCHANGED musicVars
    ELSE IF OnsetAllowedMusic(current_time(i), music_last_note_time, min_note_gap)
         THEN /\ music_notes' =
                    IF o.pitch \in DOMAIN music_active_notes
                    THEN music_notes \o ClosedNoteMusic(music_active_notes, o.pitch,
                                                        current_time(i),
                                                        min_note_duration)
                    ELSE music_notes
              /\ music_active_notes' = DictPut(DictPop(music_active_notes, o.pitch),
                                               o.pitch, current_time(i), o.velocity)
              /\ music_last_note_time' = current_time(i)
         ELSE UNCHANGED musicVars

\* audio_to_midi_music: the loop over the remaining active notes, which
\* active_notes.items() lists in ascending start_time order.
RECURSIVE FlushNotesMusic(_, _, _)
FlushNotesMusic(d, endt, mindur) ==
    IF DOMAIN d = {} THEN << >>
    ELSE LET p == CHOOSE q \in DOMAIN d :
                      \A r \in DOMAIN d : d[q].start_time <= d[r].start_time
             duration == endt - d[p].start_time
         IN (IF duration >= mindur
             THEN <<Note(d[p].velocity, p, d[p].start_time,
                         d[p].start_time + duration)>>
             ELSE << >>) \o FlushNotesMusic(DictPop(d, p), endt, mindur)

\* Both functions process the same frame.
PairFrame ==
    /\ prog = "segmenter_pair"
    /\ pc = "frames"
    /\ i < n_frames
    /\ \E o \in ObsValues : FrameEffect(o) /\ MusicFrameEffect(o)
    /\ UNCHANGED <<current_key, callVars, mixVars, segParams, pc, ioVars, harmVars,
                   mapVars, diatonic_pitches>>

\* Both functions run their loop over the remaining active notes.
PairFlush ==
    /\ prog = "segmenter_pair"
    /\ pc = "frames"
    /\ i = n_frames
    /\ notes' = notes \o FlushNotes(active_notes, span_end, min_note_duration)
    /\ music_notes' = music_notes \o FlushNotesMusic(music_active_notes, span_end,
                                                     min_note_duration)
    /\ pc' = "flushed"
    /\ UNCHANGED <<current_key, callVars, mixVars, segParams, i, last_note_time,
                   active_notes, music_last_note_time, music_active_notes, observed, ioVars,
                   harmVars, mapVars, diatonic_pitches>>

PairInit ==
    /\ prog = "segmenter_pair"
    /\ pc = "frames"
    /\ min_note_gap \in 0..MaxGap
    /\ min_note_duration \in 0..MaxDur
    /\ n_frames \in 0..MaxFrames
    /\ i = 0
    /\ last_note_time = -min_note_gap
    /\ active_notes = EmptyDict
    /\ notes = << >>
    /\ music_last_note_time = -min_note_gap
    /\ music_active_notes = EmptyDict
    /\ music_notes = << >>
    /\ observed = << >>
    /\ caller = "script"
    /\ instrument = AcousticGrandPiano
    /\ IoInit
    /\ current_key = NoKey
    /\ HarmIdle
    /\ MapIdle
    /\ MixIdle
    /\ diatonic_pitches = << >>

PairNext ==
    \/ PairFrame
    \/ PairFlush

SpecPair == PairInit /\ [][PairNext]_vars

\* ------------------------------------------------------- pitches in a key
\* The highest MIDI pitch.
MaxMidiPitch == 127

\* Every key.Key of mode major or minor, by the pitch class of its tonic.
AllKeys == {[tonic |-> t, mode |-> m] : t \in 0..11, m \in {"major", "minor"}}

\* process_midi's treatment of one note pitch: current_key, its
\* diatonic_pitches, then adjust_to_diatonic and the octave guard.
KeyInit ==
    /\ prog = "process_midi_pitch"
    /\ pc = "map"
    /\ current_key \in AllKeys
    /\ diatonic_pitches = get_diatonic_pitches(current_key)
    /\ pitch_num \in 0..MaxMidiPitch
    /\ adjusted = Unused
    /\ readjusted = Unused
    /\ guarded = Unused
    /\ SegIdle
    /\ HarmIdle
    /\ render = NoRender
    /\ files = {}
    /\ outcome = "running"
    /\ MixIdle
    /\ MusicIdle
    /\ caller = "script"
    /\ instrument = AcousticGrandPiano

KeyNext ==
    \/ Adjust
    \/ Guard

SpecKey == KeyInit /\ [][KeyNext]_vars

\* ----------------------------------------------------------------- claims

\* The flush has run: notes holds everything the run emits.
Flushed == pc \in {"write_midi", "synth", "done"}

\* C1: with min_note_gap > 0, no two Notes emitted by a segmenter run,
\* whatever their pitches and however they were closed, have start times
\* closer together than min_note_gap.
C1_OnsetSpacing ==
    (prog \in {"audio_to_midi_2", "audio_to_midi_music"} /\ min_note_gap > 0) =>
        \A a \in 1..Len(notes), b \in 1..Len(notes) :
            a # b => Abs(notes[a].start - notes[b].start) >= min_note_gap

\* A finished run that emitted notes of two pitches, one closed by a later
\* observation and one by the flush.
C1_Witness ==
    /\ Flushed
    /\ min_note_gap > 0
    /\ \E a \in 1..Len(notes), b \in 1..Len(notes) :
        /\ notes[a].pitch # notes[b].pitch
        /\ notes[a].end < n_frames * HopTicks
        /\ notes[b].end = n_frames * HopTicks

\* C2: every emitted Note lasts at least min_note_duration, whether it was
\* closed by an observation or by the flush.
C2_DurationFloor ==
    \A k \in 1..Len(notes) : notes[k].end - notes[k].start >= min_note_duration

\* A finished run in which the first note of pitch 61 was closed one hop
\* after its onset and discarded as too short, while a note closed by an
\* observation and a note closed by the flush were emitted.
C2_Witness ==
    /\ Flushed
    /\ min_note_duration > HopTicks
    /\ 0 < min_note_gap /\ min_note_gap <= HopTicks
    /\ Len(observed) >= 2
    /\ observed[1].kind = "obs" /\ observed[2].kind = "obs"
    /\ observed[1].pitch = observed[2].pitch
    /\ \E a \in 1..Len(notes), b \in 1..Len(notes) :
        /\ notes[a].end < n_frames * HopTicks
        /\ notes[b].end = n_frames * HopTicks

\* Every frame of the run was classified to the same pitch p.
Sustained(p) ==
    /\ prog \in {"audio_to_midi_2", "audio_to_midi_music"}
    /\ Flushed
    /\ n_frames >= 1
    /\ \A k \in 1..Len(observed) : observed[k].kind = "obs" /\ observed[k].pitch = p

\* C3 as stated: a sustained tone of pitch p, with positive min_note_gap and
\* min_note_duration and a span no shorter than min_note_duration, yields
\* exactly one Note, of pitch p, from time 0 to the end of the analysed span.
C3_SustainedOneNote ==
    \A p \in SegPitches :
        (/\ Sustained(p)
         /\ min_note_gap > 0
         /\ min_note_duration > 0
         /\ n_frames * HopTicks >= min_note_duration) =>
            /\ Len(notes) = 1
            /\ notes[1].pitch = p
            /\ notes[1].start = 0
            /\ notes[1].end = n_frames * HopTicks

\* C3 amended: a sustained tone of pitch p yields a chain of Notes of pitch
\* p: the first starts at time 0, each ends where the next starts, none ends
\* after the span end; it is exactly one Note from 0 to the span end if and
\* only if the span is at least min_note_duration long and no frame after
\* the first lies min_note_gap or more after time 0.
C3_SustainedChain ==
    \A p \in SegPitches :
        Sustained(p) =>
            /\ \A k \in 1..Len(notes) :
                   notes[k].pitch = p /\ notes[k].end <= n_frames * HopTicks
            /\ Len(notes) >= 1 => notes[1].start = 0
            /\ \A k \in 1..(Len(notes) - 1) : notes[k].end = notes[k + 1].start
            /\ (Len(notes) = 1 /\ notes[1].start = 0
                    /\ notes[1].end = n_frames * HopTicks)
               <=> (/\ n_frames * HopTicks >= min_note_duration
                    /\ \A k \in 1..(n_frames - 1) : k * HopTicks < min_note_gap)

\* A sustained tone that was emitted as a chain of at least three notes.
C3_Witness ==
    \E p \in SegPitches : Sustained(p) /\ Len(notes) >= 3 /\ min_note_gap > 0

\* The scale is non-empty, ascending and duplicate-free.
StrictlyAscending(scale) ==
    /\ Len(scale) >= 1
    /\ \A a \in 1..Len(scale), b \in 1..Len(scale) : a < b => scale[a] < scale[b]

\* C4: for a non-empty, ascending, duplicate-free scale adjust_to_diatonic
\* returns a scale element at least as close to the pitch as every other
\* element, and of two equidistant elements the lower one.
C4_NearestLower ==
    (prog = "adjust_to_diatonic" /\ pc # "map" /\ StrictlyAscending(diatonic_pitches)) =>
        /\ \E k \in 1..Len(diatonic_pitches) : diatonic_pitches[k] = adjusted
        /\ \A k \in 1..Len(diatonic_pitches) :
            /\ Abs(adjusted - pitch_num) <= Abs(diatonic_pitches[k] - pitch_num)
            /\ Abs(adjusted - pitch_num) = Abs(diatonic_pitches[k] - pitch_num)
                   => adjusted <= diatonic_pitches[k]

\* The pitch lies midway between two scale elements and the lower is returned.
C4_Witness ==
    /\ prog = "adjust_to_diatonic"
    /\ pc = "adjusted"
    /\ StrictlyAscending(diatonic_pitches)
    /\ adjusted = pitch_num - 1
    /\ \E k \in 1..Len(diatonic_pitches) : diatonic_pitches[k] = pitch_num + 1

\* C5: adjust_to_diatonic applied to its own result returns that result,
\* for every pitch and every non-empty sorted scale.
C5_Idempotent ==
    (prog = "adjust_to_diatonic" /\ pc = "readjusted" /\ Len(diatonic_pitches) >= 1) =>
        readjusted = adjusted

\* The second application ran on a pitch that the first one moved to a
\* scale element that has a lower neighbour.
C5_Witness ==
    /\ prog = "adjust_to_diatonic"
    /\ pc = "readjusted"
    /\ Len(diatonic_pitches) >= 2
    /\ adjusted # pitch_num
    /\ adjusted = diatonic_pitches[2]
    /\ diatonic_pitches[1] < diatonic_pitches[2]

\* C6: the pitch written for a note is at most one octave (pitch \div 12)
\* away from the note's pitch; when the snapped pitch is further away, the
\* written pitch is original_octave * 12 + snapped_pitch % 12.
C6_OctaveGuard ==
    (prog = "adjust_to_diatonic" /\ pc \in {"guarded", "readjusted"}) =>
        /\ Abs((guarded \div 12) - (pitch_num \div 12)) <= 1
        /\ Abs((adjusted \div 12) - (pitch_num \div 12)) > 1
               => guarded = ((pitch_num \div 12) * 12) + (adjusted % 12)

\* The snapped pitch was more than one octave away and the guard moved it.
C6_Witness ==
    /\ prog = "adjust_to_diatonic"
    /\ pc = "guarded"
    /\ Abs((adjusted \div 12) - (pitch_num \div 12)) > 1
    /\ guarded # adjusted

\* C7: in harmonize_choose_key.process_midi every note inserted before a
\* note B ends no later than B starts, when B is inserted and ever after.
C7_OverlapTrim ==
    prog = "harmonize_choose_key" =>
        \A a \in 1..Len(out_notes), b \in 1..Len(out_notes) :
            a < b => out_notes[a].end <= out_notes[b].start

\* A note was inserted whose start cut the end of the note before it.
C7_Witness ==
    /\ prog = "harmonize_choose_key"
    /\ Len(out_notes) >= 2
    /\ out_notes[1].end < in_notes[1].end
    /\ out_notes[1].end = out_notes[2].start

\* C8: in less_dissonance.process_midi every output note ends no later than
\* the note inserted right after it starts.
C8_OverlapTrimLessDissonance ==
    prog = "less_dissonance" =>
        \A a \in 1..(Len(out_notes) - 1) : out_notes[a].end <= out_notes[a + 1].start

\* C9: process_midi inserts one output note per input note, in order (so
\* that a finished pass has as many output notes as input notes), with the
\* input note's velocity and start and the harmonized pitch, and no later
\* step changes them; an inserted note's end is only ever lowered.
C9_PassThrough ==
    prog \in {"harmonize_choose_key", "less_dissonance"} =>
        /\ pc = "notes" => Len(out_notes) = idx - 1 /\ idx <= Len(in_notes) + 1
        /\ \A k \in 1..Len(out_notes) :
            /\ out_notes[k].velocity = in_notes[k].velocity
            /\ out_notes[k].start = in_notes[k].start
            /\ out_notes[k].pitch = HarmonizePitch(in_notes[k].pitch, diatonic_pitches)
            /\ out_notes[k].end <= in_notes[k].end

\* A finished pass over two notes of different velocities in which the
\* second note cut the first.
C9_Witness ==
    /\ prog = "harmonize_choose_key"
    /\ pc = "notes"
    /\ idx > Len(in_notes)
    /\ Len(out_notes) = 2
    /\ in_notes[1].velocity # in_notes[2].velocity
    /\ in_notes[1].start > in_notes[2].start
    /\ out_notes[1].end < in_notes[1].end

\* C10: when audio_to_midi finds no sound bank or fluidsynth fails, and
\* neither the basic synthesis nor the write of the file fails, it renders
\* with the basic synthesis and writes the audio file, and returns normally.
C10_RenderFallback ==
    (/\ prog \in {"audio_to_midi_2", "audio_to_midi_music"}
     /\ pc = "done"
     /\ render.sf2 = "missing" \/ render.fluid = "failed"
     /\ render.basic # "failed"
     /\ render.write # "failed") =>
        /\ render.used = "basic"
        /\ "audio" \in files
        /\ outcome = "returned"

\* A step of the frame loop of a segmenter run.
FrameStep ==
    /\ prog \in {"audio_to_midi_2", "audio_to_midi_music"}
    /\ pc = "frames"
    /\ i' = i + 1

\* The frame step reads an observation that the gate turns away.
GatedStep ==
    /\ FrameStep
    /\ observed'[i'].kind = "obs"
    /\ (i * HopTicks) - last_note_time < min_note_gap

\* The frame step reads an observation that the gate lets through.
AcceptedStep ==
    /\ FrameStep
    /\ observed'[i'].kind = "obs"
    /\ (i * HopTicks) - last_note_time >= min_note_gap

\* C15: an observation at time t with t - last_note_onset_time <
\* min_note_gap changes neither the active-note table nor
\* last_note_onset_time nor the emitted Notes, also when its pitch is active.
C15_GateIgnores ==
    [][GatedStep =>
         /\ active_notes' = active_notes
         /\ last_note_time' = last_note_time
         /\ notes' = notes]_vars

\* The last observation read was turned away by the gate while its own pitch
\* had an active note.
C15_Witness ==
    /\ prog \in {"audio_to_midi_2", "audio_to_midi_music"}
    /\ pc = "frames"
    /\ i >= 2
    /\ observed[i].kind = "obs"
    /\ observed[i].pitch \in DOMAIN active_notes
    /\ last_note_time < (i - 1) * HopTicks
    /\ ((i - 1) * HopTicks) - last_note_time < min_note_gap

\* C16: an accepted observation of pitch p leaves the active entry of every
\* other pitch as it was, adds no active entry but p's, and appends at most
\* one Note, of pitch p, to the output.
C16_AcceptClosesOne ==
    [][AcceptedStep =>
         LET p == observed'[i'].pitch
         IN /\ \A q \in (DOMAIN active_notes) \ {p} :
                  /\ q \in DOMAIN active_notes'
                  /\ active_notes'[q] = active_notes[q]
            /\ DOMAIN active_notes' \subseteq (DOMAIN active_notes) \cup {p}
            /\ Len(notes') <= Len(notes) + 1
            /\ SubSeq(notes', 1, Len(notes)) = notes
            /\ Len(notes') = Len(notes) + 1 => notes'[Len(notes')].pitch = p]_vars

\* The last observation was accepted and closed the note of its pitch into
\* the output while another pitch, opened earlier, is still active.
C16_Witness ==
    /\ prog \in {"audio_to_midi_2", "audio_to_midi_music"}
    /\ pc = "frames"
    /\ i >= 3
    /\ observed[i].kind = "obs"
    /\ last_note_time = (i - 1) * HopTicks
    /\ Len(notes) >= 1
    /\ notes[Len(notes)].pitch = observed[i].pitch
    /\ notes[Len(notes)].end = (i - 1) * HopTicks
    /\ \E q \in DOMAIN active_notes :
          /\ q # observed[i].pitch
          /\ active_notes[q].start_time < notes[Len(notes)].start

\* C17: after an observation (t, p, v) is accepted, p is active with start
\* time t and velocity v and last_note_onset_time is t, whatever p's entry
\* was before; the observation of the first frame, at time 0, is accepted.
C17_AcceptReopens ==
    [][(/\ FrameStep
        /\ observed'[i'].kind = "obs"
        /\ \/ i = 0
           \/ (i * HopTicks) - last_note_time >= min_note_gap) =>
         LET o == observed'[i']
         IN /\ o.pitch \in DOMAIN active_notes'
            /\ active_notes'[o.pitch] =
                   [start_time |-> i * HopTicks, velocity |-> o.velocity]
            /\ last_note_time' = i * HopTicks]_vars

\* The second observation repeats the pitch of the first, is accepted, and the
\* note it closes is too short to be emitted: the pitch is open again.
C17_Witness ==
    /\ prog \in {"audio_to_midi_2", "audio_to_midi_music"}
    /\ pc = "frames"
    /\ i = 2
    /\ observed[1].kind = "obs"
    /\ observed[2].kind = "obs"
    /\ observed[1].pitch = observed[2].pitch
    /\ min_note_gap <= HopTicks
    /\ min_note_duration > HopTicks
    /\ notes = << >>
    /\ last_note_time = HopTicks
    /\ active_notes[observed[2].pitch] =
           [start_time |-> HopTicks, velocity |-> observed[2].velocity]

\* C18: the flush appends, for every pitch still active, exactly one Note
\* (its start time and velocity, end = frame count x hop duration) if that
\* end minus its start is >= min_note_duration and none otherwise; it appends
\* nothing else, and no Note ends later than the span end.
C18_Flush ==
    [][(/\ prog \in {"audio_to_midi_2", "audio_to_midi_music"}
        /\ pc = "frames"
        /\ pc' = "write_midi") =>
         LET added == SubSeq(notes', Len(notes) + 1, Len(notes'))
             endt == n_frames * HopTicks
         IN /\ SubSeq(notes', 1, Len(notes)) = notes
            /\ \A p \in DOMAIN active_notes :
                  Cardinality({k \in 1..Len(added) : added[k].pitch = p}) =
                      (IF endt - active_notes[p].start_time >= min_note_duration
                       THEN 1 ELSE 0)
            /\ \A k \in 1..Len(added) :
                  /\ added[k].pitch \in DOMAIN active_notes
                  /\ added[k] = Note(active_notes[added[k].pitch].velocity,
                                     added[k].pitch,
                                     active_notes[added[k].pitch].start_time,
                                     endt)
            /\ \A k \in 1..Len(notes') : notes'[k].end <= endt]_vars

\* The flush has run over two active pitches: one was emitted with the span
\* end, the other was too short and is not in the output.
C18_Witness ==
    /\ prog \in {"audio_to_midi_2", "audio_to_midi_music"}
    /\ pc = "write_midi"
    /\ min_note_duration > 0
    /\ \E p \in DOMAIN active_notes, q \in DOMAIN active_notes :
          /\ (n_frames * HopTicks) - active_notes[p].start_time >= min_note_duration
          /\ (n_frames * HopTicks) - active_notes[q].start_time < min_note_duration
          /\ \E k \in 1..Len(notes) :
                notes[k] = Note(active_notes[p].velocity, p,
                                active_notes[p].start_time, n_frames * HopTicks)
          /\ \A k \in 1..Len(notes) : notes[k].pitch # q

\* last_note_time after the first k observations, replayed from observed.
RECURSIVE LastOnsetAfter(_)
LastOnsetAfter(k) ==
    IF k = 0 THEN 0 - min_note_gap
    ELSE LET prev == LastOnsetAfter(k - 1)
             t == (k - 1) * HopTicks
         IN IF observed[k].kind = "obs" /\ t - prev >= min_note_gap
            THEN t ELSE prev

\* The k-th observation was let through by the gate.
Accepted(k) ==
    /\ observed[k].kind = "obs"
    /\ ((k - 1) * HopTicks) - LastOnsetAfter(k - 1) >= min_note_gap

\* C19: two emitted Notes of equal pitch never overlap in time; every
\* emitted Note starts at the time of an accepted observation of its pitch
\* and carries its velocity; no two Notes come from the same observation.
C19_SamePitchDisjoint ==
    prog \in {"audio_to_midi_2", "audio_to_midi_music"} =>
        /\ \A a \in 1..Len(notes), b \in 1..Len(notes) :
              (a # b /\ notes[a].pitch = notes[b].pitch) =>
                  /\ \/ notes[a].end <= notes[b].start
                     \/ notes[b].end <= notes[a].start
                  /\ notes[a].start # notes[b].start
        /\ \A a \in 1..Len(notes) :
              \E k \in 1..Len(observed) :
                  /\ Accepted(k)
                  /\ observed[k].pitch = notes[a].pitch
                  /\ observed[k].velocity = notes[a].velocity
                  /\ notes[a].start = (k - 1) * HopTicks

\* A finished run emitted two Notes of one pitch, the second starting where
\* the first ends.
C19_Witness ==
    /\ prog \in {"audio_to_midi_2", "audio_to_midi_music"}
    /\ Flushed
    /\ \E a \in 1..Len(notes), b \in 1..Len(notes) :
          /\ a # b
          /\ notes[a].pitch = notes[b].pitch
          /\ notes[a].end = notes[b].start
          /\ notes[a].end > notes[a].start

\* The inputs read by mix_wavs sum to a non-empty buffer of zeros.
SumAllZero ==
    /\ Len(wav_data) > 0
    /\ \E k \in 1..Len(wav_data) : Len(wav_data[k].data) > 0
    /\ \A k \in 1..max_len(wav_data) : SumAt(wav_data, max_len(wav_data), k) = 0

\* C12: when the equal-rate buffers given to mix_wavs sum to all zero, the
\* written output is the all-zero buffer, without NaN samples.
C12_ZeroGuard ==
    (/\ prog = "mix"
     /\ pc = "done"
     /\ outcome = "returned"
     /\ wav_paths > 0
     /\ SumAllZero) =>
        /\ Len(mixed) = 1
        /\ \A k \in 1..Len(mixed[1].data) :
              mixed[1].data[k] # NaN /\ mixed[1].data[k].num = 0

C11_BoundaryValidation ==
    (/\ caller = "convert_audio"
     /\ \/ min_note_duration <= 0
        \/ min_note_gap <= 0
        \/ instrument < 0
        \/ instrument > 127) =>
        /\ i = 0
        /\ files = {}
        /\ pc = "responded" => outcome = "error"

\* C14: when harmonize_choose_key.process_midi has processed the notes of a
\* segmenter run with min_note_duration > 0, in the order the segmenter
\* appended them, every output Note has end > start.
C14_PipelineNoteValidity ==
    (/\ caller = "chain"
     /\ prog = "harmonize_choose_key"
     /\ pc = "notes"
     /\ min_note_duration > 0
     /\ in_notes = notes) =>
        \A k \in 1..Len(out_notes) : out_notes[k].end > out_notes[k].start

\* C20: when /convert/ answers with the success response, the MIDI file, the
\* audio file and the harmonized audio file have all been written; when one
\* of them has not, it answers with the error response.
C20_ConvertSuccess ==
    (caller = "convert_audio" /\ pc = "responded") =>
        (outcome = "success" <=> {"midi", "audio", "harmonized"} \subseteq files)

\* C21: run on the same observation sequence, frame count, min_note_gap and
\* min_note_duration, audio_to_midi of audio_to_midi_2.py and audio_to_midi
\* of audio_to_midi_music.py have the same active-note table and the same
\* last_note_time after every frame, and the same Notes in the same order
\* after every frame and after the flush.
C21_VariantsEquivalent ==
    prog = "segmenter_pair" =>
        /\ music_active_notes = active_notes
        /\ music_last_note_time = last_note_time
        /\ music_notes = notes

\* A side-by-side run is over: it turned an observation away at the gate and
\* emitted a note closed by an observation and a note closed by the flush.
C21_Witness ==
    /\ prog = "segmenter_pair"
    /\ pc = "flushed"
    /\ min_note_gap > 0
    /\ min_note_duration > 0
    /\ \E k \in 2..Len(observed) : observed[k].kind = "obs" /\ ~Accepted(k)
    /\ \E a \in 1..Len(music_notes), b \in 1..Len(music_notes) :
          /\ music_notes[a].end < n_frames * HopTicks
          /\ music_notes[b].end = n_frames * HopTicks

\* The pitch classes of the scale of key k: the tonic's plus the steps of the
\* major or the natural minor scale.
KeyPitchClasses(k) ==
    {(k.tonic + d) % 12 : d \in (IF k.mode = "major"
                                 THEN {0, 2, 4, 5, 7, 9, 11}
                                 ELSE {0, 2, 3, 5, 7, 8, 10})}

\* C22: for every note pitch in 0..127 and every major or minor key, the
\* pitch written after adjust_to_diatonic on the key's diatonic pitches and
\* the octave guard is within 0..127 and its pitch class belongs to the
\* key's scale.
C22_PitchInKey ==
    (prog = "process_midi_pitch" /\ pc = "guarded") =>
        /\ 0 <= guarded
        /\ guarded <= 127
        /\ guarded % 12 \in KeyPitchClasses(current_key)

\* A pitch outside the key, more than an octave below every diatonic pitch:
\* the octave guard has replaced the snapped pitch.
C22_Witness ==
    /\ prog = "process_midi_pitch"
    /\ pc = "guarded"
    /\ pitch_num % 12 \notin KeyPitchClasses(current_key)
    /\ Abs((adjusted \div 12) - (pitch_num \div 12)) > 1
    /\ guarded # adjusted

====
